---- MODULE Spec2Model ----
(***************************************************************************)
(* The self-destruct download server of main.py: SelfDestructHandler.do_GET *)
(* (one thread per connection), the one-shot shutdown thread and the serve  *)
(* loop of serve_and_delete, over a small file system.                      *)
(*                                                                         *)
(* A string is a sequence of one-character strings, so that startswith,    *)
(* unquote, lstrip, join, abspath and splitext are computed the way the     *)
(* library computes them.                                                   *)
(***************************************************************************)
EXTENDS Integers, Sequences, FiniteSets, TLC

----------------------------------------------------------------------------
(* Strings *)

\* str.startswith
StartsWith(s, p) == Len(p) <= Len(s) /\ SubSeq(s, 1, Len(p)) = p

\* the percent escapes the requests of the model use; urllib's unquote
\* accepts hex digits of either case and leaves a malformed escape as it is
HexPairs ==
  [e \in {<<"2","e">>, <<"2","E">>, <<"2","f">>, <<"2","F">>} |->
      IF e[2] \in {"e", "E"} THEN "." ELSE "/"]

\* urllib.parse.unquote
RECURSIVE unquote(_)
unquote(s) ==
  IF s = <<>> THEN <<>>
  ELSE IF s[1] = "%" /\ Len(s) >= 3 /\ <<s[2], s[3]>> \in DOMAIN HexPairs
       THEN <<HexPairs[<<s[2], s[3]>>]>> \o unquote(SubSeq(s, 4, Len(s)))
       ELSE <<s[1]>> \o unquote(Tail(s))

\* str.lstrip("/")
RECURSIVE lstrip(_)
lstrip(s) == IF s /= <<>> /\ s[1] = "/" THEN lstrip(Tail(s)) ELSE s

\* str.lower, on the letters the model's names use
LowerChar(c) ==
  CASE c = "M" -> "m" [] c = "P" -> "p" [] c = "T" -> "t" [] c = "X" -> "x"
    [] OTHER -> c

lower(s) == [i \in 1..Len(s) |-> LowerChar(s[i])]

\* posixpath.join(a, b) for two parts
join(a, b) ==
  IF StartsWith(b, <<"/">>) THEN b
  ELSE IF a = <<>> \/ a[Len(a)] = "/" THEN a \o b
  ELSE a \o <<"/">> \o b

\* str.split("/"): the components between the separators, empty ones included
RECURSIVE Split(_, _)
Split(s, cur) ==
  IF s = <<>> THEN <<cur>>
  ELSE IF s[1] = "/" THEN <<cur>> \o Split(Tail(s), <<>>)
  ELSE Split(Tail(s), Append(cur, s[1]))

\* the loop of posixpath.normpath over the components of an absolute path:
\* "" and "." are dropped, ".." removes the component before it and is itself
\* dropped at the top
RECURSIVE NormComps(_, _)
NormComps(comps, acc) ==
  IF comps = <<>> THEN acc
  ELSE LET c == Head(comps) IN
       IF c = <<>> \/ c = <<".">> THEN NormComps(Tail(comps), acc)
       ELSE IF c = <<".", ".">>
            THEN NormComps(Tail(comps),
                           IF acc = <<>> THEN acc ELSE SubSeq(acc, 1, Len(acc) - 1))
            ELSE NormComps(Tail(comps), Append(acc, c))

\* "/".join(comps) with the leading "/"
RECURSIVE JoinComps(_)
JoinComps(comps) ==
  IF comps = <<>> THEN <<>>
  ELSE <<"/">> \o Head(comps) \o JoinComps(Tail(comps))

\* os.path.abspath of a path that is already absolute: normpath
abspath(p) ==
  LET comps == NormComps(Split(p, <<>>), <<>>)
  IN  IF comps = <<>> THEN <<"/">> ELSE JoinComps(comps)

\* os.path.basename
basename(p) == LET cs == Split(p, <<>>) IN cs[Len(cs)]

\* os.path.splitext(p)[1]: from the last dot of the last component, unless
\* only dots come before it there
splitext(p) ==
  LET b    == basename(p)
      dots == {i \in 1..Len(b) : b[i] = "."}
  IN  IF dots = {} THEN <<>>
      ELSE LET d == CHOOSE i \in dots : \A j \in dots : j <= i
           IN  IF \A j \in 1..(d - 1) : b[j] = "." THEN <<>>
               ELSE SubSeq(b, d, Len(b))

----------------------------------------------------------------------------
(* Configuration *)

ALLOWED_EXTS ==
  { <<".","m","p","4">>, <<".","m","4","a">>, <<".","m","p","3">>,
    <<".","w","a","v">>, <<".","w","e","b","m">>, <<".","m","o","v">>,
    <<".","m","k","v">>, <<".","a","a","c">>, <<".","f","l","a","c">>,
    <<".","o","g","g">> }

\* the working directory of the process, here /r
PROJECT_ROOT == <<"/","r">>

\* the default of the SERVE_PREFIX environment variable, /dl/
SERVE_PREFIX == <<"/","d","l","/">>

----------------------------------------------------------------------------
(* The file system the server runs on *)

\* /r/a.mp4 is an output of the batch pipeline (OUT_TMPL), /r/b.txt another
\* file of the project folder, /r2/s.mp4 a file of the sibling directory /r2,
\* /o/p.MP4 a file of the directory /o
FileA == <<"/","r","/","a",".","m","p","4">>
FileB == <<"/","r","/","b",".","t","x","t">>
FileS == <<"/","r","2","/","s",".","m","p","4">>
FileP == <<"/","o","/","p",".","M","P","4">>
FileNames == {FileA, FileB, FileS, FileP}

\* directories: /, /r, /r2, /o and /r/d.mp4 (a directory named like a clip)
DirD == <<"/","r","/","d",".","m","p","4">>
Dirs == { <<"/">>, PROJECT_ROOT, <<"/","r","2">>, <<"/","o">>, DirD }

\* /r/l is a symbolic link to the directory /o
Symlinks == { [link |-> <<"/","r","/","l">>, target |-> <<"/","o">>] }

Absent == -1

\* the sizes the files have when the server starts
InitSize == (FileA :> 1) @@ (FileB :> 2) @@ (FileS :> 1) @@ (FileP :> 1)

\* st_size of a directory
DirSize == [d \in Dirs |-> 4]

\* the kernel's path resolution: a symbolic link among the directories of p
\* (or p itself) is followed
Resolve(p) ==
  IF \E l \in Symlinks : p = l.link \/ StartsWith(p, l.link \o <<"/">>)
  THEN LET l == CHOOSE l \in Symlinks :
                    p = l.link \/ StartsWith(p, l.link \o <<"/">>)
       IN  l.target \o SubSeq(p, Len(l.link) + 1, Len(p))
  ELSE p

\* what a path names in file system f: "dir", "file" or "none"
Kind(f, p) ==
  LET q == Resolve(p)
  IN  IF q \in Dirs THEN "dir"
      ELSE IF q \in FileNames /\ f[q] /= Absent THEN "file"
      ELSE "none"

\* os.path.exists
exists(f, p) == Kind(f, p) /= "none"

\* os.path.getsize of a path that exists
getsize(f, p) ==
  IF Kind(f, p) = "dir" THEN DirSize[Resolve(p)] ELSE f[Resolve(p)]

----------------------------------------------------------------------------
(* Bounds *)

\* connections made to the server during one run
MaxConn == 2

----------------------------------------------------------------------------
(* Requests *)

ReqA       == <<"/","d","l","/","a",".","m","p","4">>          \* /dl/a.mp4
ReqB       == <<"/","d","l","/","b",".","t","x","t">>          \* /dl/b.txt
ReqSibling == <<"/","d","l","/",".",".","/","r","2","/","s",".","m","p","4">>
                                                               \* /dl/../r2/s.mp4
ReqEncoded == <<"/","d","l","/","%","2","e","%","2","e","/","o","/","p",".","M","P","4">>
                                                               \* /dl/%2e%2e/o/p.MP4
ReqLink    == <<"/","d","l","/","l","/","p",".","M","P","4">>  \* /dl/l/p.MP4
ReqRoute   == <<"/","x","/","a",".","m","p","4">>              \* /x/a.mp4
ReqDir     == <<"/","d","l","/","d",".","m","p","4">>          \* /dl/d.mp4
ReqRoot    == <<"/","d","l","/">>                              \* /dl/
ReqNoMp4   == <<"/","d","l","/","n",".","m","p","4">>          \* /dl/n.mp4
ReqNoTxt   == <<"/","d","l","/","n",".","t","x","t">>          \* /dl/n.txt

\* the request paths clients send
Requests ==
  { ReqA, ReqB, ReqSibling, ReqEncoded, ReqLink, ReqRoute, ReqDir, ReqRoot,
    ReqNoMp4, ReqNoTxt }

\* the requests of the runs that follow one clip through concurrent
\* deliveries, the pipeline and the end of the server
ClipRequests == { ReqA, ReqB, ReqRoute }

\* the requests of the one-shot runs: the clip and one request for each of
\* the four rejections
OnceRequests == { ReqA, ReqB, ReqEncoded, ReqRoute, ReqNoMp4 }

\* rel of do_GET
RelOf(path) == lstrip(unquote(SubSeq(path, Len(SERVE_PREFIX) + 1, Len(path))))

\* abs_path of do_GET
AbsOf(path) == abspath(join(PROJECT_ROOT, RelOf(path)))

\* ext of do_GET
ExtOf(abs) == lower(splitext(abs))

\* abs_path and ext of do_GET, for each request path of the model
abs_path == [path \in Requests |-> AbsOf(path)]
ext == [path \in Requests |-> ExtOf(abs_path[path])]

\* a do_GET without the prefix test
HasPrefixAny(path) == TRUE

\* the prefix test of do_GET
HasPrefix(path) == StartsWith(path, SERVE_PREFIX)

\* the containment test of do_GET
InsideRoot(abs) == StartsWith(abs, PROJECT_ROOT)

\* a do_GET that does not test os.path.exists before the delivery
StatusOfNoExists(f, path) ==
  IF ~StartsWith(path, SERVE_PREFIX) THEN 404
  ELSE IF ~StartsWith(abs_path[path], PROJECT_ROOT) THEN 403
  ELSE IF ext[path] \notin ALLOWED_EXTS THEN 415
  ELSE 200

\* a do_GET that does not test the extension before the delivery
StatusOfNoExt(f, path) ==
  IF ~StartsWith(path, SERVE_PREFIX) THEN 404
  ELSE IF ~StartsWith(abs_path[path], PROJECT_ROOT) THEN 403
  ELSE IF ~exists(f, abs_path[path]) THEN 404
  ELSE 200

\* the status do_GET answers to a request in file system f: that of
\* send_error, or 200 when the request goes on to the delivery
StatusOf(f, path) ==
  IF ~HasPrefix(path) THEN 404
  ELSE IF ~InsideRoot(abs_path[path]) THEN 403
  ELSE IF ~exists(f, abs_path[path]) THEN 404
  ELSE IF ext[path] \notin ALLOWED_EXTS THEN 415
  ELSE 200

----------------------------------------------------------------------------
(* State *)

VARIABLES
  once,              \* SelfDestructHandler.once
  perm,              \* the process may unlink files
  fs,                \* the files: name -> size, or Absent
  rewritten,         \* the pipeline has written the clip since the server started
  conn,              \* the connections and their handler threads
  loop,              \* where serve_and_delete is
  shutdown_request,  \* BaseServer.__shutdown_request
  is_shut_down,      \* BaseServer.__is_shut_down
  interrupted,       \* a KeyboardInterrupt was raised in serve_forever
  pending            \* handler threads were running when serve_forever ended

vars ==
  <<once, perm, fs, rewritten, conn, loop, shutdown_request, is_shut_down,
    interrupted, pending>>

Conns == 1..MaxConn

\* a connection nobody has made yet
Idle ==
  [ pc |-> "idle", path |-> <<>>, seen |-> {}, abs |-> <<>>, status |-> 0,
    clen |-> Absent, flushed |-> FALSE, fsize |-> Absent, sent |-> 0,
    exc |-> "none", ops |-> {}, del |-> "none", raised |-> FALSE, sd |-> "none" ]

\* do_GET has returned (or raised) after send_response(200)
Answered200(c) == c.pc = "done" /\ c.status = 200

\* do_GET has returned after answering 200 with the whole file
Delivered(c) ==
  c.pc = "done" /\ c.status = 200 /\ c.exc = "none" /\ c.sent = c.fsize

\* connection i was made after a handler had returned from a whole delivery
Late(i) == \E k \in conn[i].seen : Delivered(conn[k])

\* the state after construction; onceModes and perms are the modes and the
\* unlink permissions of the runs
InitOf(onceModes, perms) ==
  /\ once \in onceModes
  /\ perm \in perms
  /\ fs = InitSize
  /\ rewritten = FALSE
  /\ conn = [i \in Conns |-> Idle]
  /\ loop = "select"
  /\ shutdown_request = FALSE
  /\ is_shut_down = FALSE
  /\ interrupted = FALSE
  /\ pending = FALSE

Init == InitOf(BOOLEAN, BOOLEAN)

----------------------------------------------------------------------------
(* Clients and the batch pipeline *)

\* a client connects and sends GET path; the connection waits in the
\* listening socket's queue until the serve loop accepts it
Connect(i, path) ==
  /\ loop = "select"
  /\ conn[i].pc = "idle"
  /\ \A j \in Conns : j < i => conn[j].pc /= "idle"
  /\ conn' = [conn EXCEPT ![i] =
                [Idle EXCEPT !.pc = "queued", !.path = path,
                             !.seen = {j \in Conns : Answered200(conn[j])}]]
  /\ UNCHANGED <<once, perm, fs, rewritten, loop, shutdown_request, is_shut_down,
                 interrupted, pending>>

\* render_clip writes the finished clip, OUT_TMPL, into the project folder
\* again, after the server has removed it
PipelineWrite ==
  /\ loop /= "stopped"
  /\ fs[FileA] = Absent
  /\ fs' = [fs EXCEPT ![FileA] = InitSize[FileA]]
  /\ rewritten' = TRUE
  /\ UNCHANGED <<once, perm, conn, loop, shutdown_request, is_shut_down, interrupted, pending>>

----------------------------------------------------------------------------
(* SelfDestructHandler.do_GET, one thread per accepted connection *)

\* a do_GET whose one-shot block runs after a send_error as well
ValidateThenShutdown(i) ==
  LET c  == conn[i]
      st == StatusOf(fs, c.path)
  IN  /\ c.pc = "start"
      /\ conn' = [conn EXCEPT ![i] =
                    [c EXCEPT !.pc = IF st = 200 THEN "headers" ELSE "done",
                              !.abs = IF HasPrefix(c.path) THEN abs_path[c.path] ELSE <<>>,
                              !.status = IF st = 200 THEN 0 ELSE st,
                              !.ops = IF HasPrefix(c.path) /\ InsideRoot(abs_path[c.path])
                                      THEN {"exists"} ELSE {},
                              !.sd = IF once /\ st /= 200 THEN "started" ELSE "none"]]
      /\ UNCHANGED <<once, perm, fs, rewritten, loop, shutdown_request, is_shut_down,
                     interrupted, pending>>

\* the checks before the delivery: send_error and return, or go on
Validate(i) ==
  LET c  == conn[i]
      st == StatusOf(fs, c.path)
  IN  /\ c.pc = "start"
      /\ conn' = [conn EXCEPT ![i] =
                    [c EXCEPT !.pc = IF st = 200 THEN "headers" ELSE "done",
                              !.abs = IF HasPrefix(c.path) THEN abs_path[c.path] ELSE <<>>,
                              !.status = IF st = 200 THEN 0 ELSE st,
                              !.ops = IF HasPrefix(c.path) /\ InsideRoot(abs_path[c.path])
                                      THEN {"exists"} ELSE {}]]
      /\ UNCHANGED <<once, perm, fs, rewritten, loop, shutdown_request, is_shut_down,
                     interrupted, pending>>

\* what writing to the client's socket can do: the bytes go out, the client
\* has closed the connection (BrokenPipeError), or the connection fails in
\* another way (ConnectionResetError, an OSError that is no BrokenPipeError)
WriteOutcomes == {"ok", "BrokenPipeError", "OSError"}

\* send_response(200), the headers with Content-Length from os.path.getsize,
\* end_headers
SendHeaders(i, w) ==
  LET c == conn[i]
  IN  /\ c.pc = "headers"
      /\ w \in WriteOutcomes
      /\ IF ~exists(fs, c.abs)
         THEN \* getsize raises FileNotFoundError; nothing was written yet
              /\ w = "ok"
              /\ conn' = [conn EXCEPT ![i] =
                            [c EXCEPT !.pc = "remove", !.status = 200,
                                      !.ops = @ \cup {"getsize"}, !.exc = "OSError"]]
         ELSE conn' = [conn EXCEPT ![i] =
                         [c EXCEPT !.pc = IF w = "ok" THEN "open" ELSE "remove",
                                   !.status = 200,
                                   !.clen = getsize(fs, c.abs),
                                   !.ops = @ \cup {"getsize"},
                                   !.flushed = (w = "ok"),
                                   !.exc = IF w = "ok" THEN "none" ELSE w]]
      /\ UNCHANGED <<once, perm, fs, rewritten, loop, shutdown_request, is_shut_down,
                     interrupted, pending>>

\* a do_GET that removes the file after the copy instead of in a finally
\* block: a failed open or write ends the handler
CopyFileNoFinally(i, w) ==
  LET c == conn[i]
  IN  /\ c.pc = "open"
      /\ w \in {"ok", "BrokenPipeError", "OSError"}
      /\ IF Kind(fs, c.abs) /= "file"
         THEN /\ w = "ok"
              /\ conn' = [conn EXCEPT ![i] =
                            [c EXCEPT !.pc = "done", !.ops = @ \cup {"open"},
                                      !.exc = "OSError", !.raised = TRUE]]
         ELSE \E n \in 0..fs[Resolve(c.abs)] :
                /\ IF w = "ok" THEN n = fs[Resolve(c.abs)] ELSE n < fs[Resolve(c.abs)]
                /\ conn' = [conn EXCEPT ![i] =
                              [c EXCEPT !.pc = IF w = "ok" THEN "remove" ELSE "done",
                                        !.ops = @ \cup {"open"},
                                        !.fsize = fs[Resolve(c.abs)], !.sent = n,
                                        !.exc = IF w = "ok" THEN "none" ELSE w,
                                        !.raised = (w = "OSError")]]
      /\ UNCHANGED <<once, perm, fs, rewritten, loop, shutdown_request, is_shut_down,
                     interrupted, pending>>

\* with open(abs_path, "rb") as f: shutil.copyfileobj(f, self.wfile): open
\* fails, or all the bytes of the open file go out, or fewer when a write
\* fails
CopyFile(i, w) ==
  LET c == conn[i]
  IN  /\ c.pc = "open"
      /\ w \in WriteOutcomes
      /\ IF Kind(fs, c.abs) /= "file"
         THEN \* FileNotFoundError or IsADirectoryError
              /\ w = "ok"
              /\ conn' = [conn EXCEPT ![i] =
                            [c EXCEPT !.pc = "remove", !.ops = @ \cup {"open"},
                                      !.exc = "OSError"]]
         ELSE \E n \in 0..fs[Resolve(c.abs)] :
                /\ IF w = "ok" THEN n = fs[Resolve(c.abs)] ELSE n < fs[Resolve(c.abs)]
                /\ conn' = [conn EXCEPT ![i] =
                              [c EXCEPT !.pc = "remove", !.ops = @ \cup {"open"},
                                        !.fsize = fs[Resolve(c.abs)], !.sent = n,
                                        !.exc = IF w = "ok" THEN "none" ELSE w]]
      /\ UNCHANGED <<once, perm, fs, rewritten, loop, shutdown_request, is_shut_down,
                     interrupted, pending>>

\* a finally block that does not call os.remove
RemoveOutcomeSkipped(f, p) == "absent"

\* a finally block without the FileNotFoundError clause: a file that is
\* already gone is reported like any other failure
RemoveOutcomeNoNotFound(f, p) ==
  CASE Kind(f, p) = "file" -> IF perm THEN "removed" ELSE "warned"
    [] OTHER               -> "warned"

\* what os.remove(p) does in file system f: "removed", "absent"
\* (FileNotFoundError) or "warned" (any other error: IsADirectoryError for a
\* directory, PermissionError for a file the process may not unlink)
RemoveOutcome(f, p) ==
  CASE Kind(f, p) = "none" -> "absent"
    [] Kind(f, p) = "dir"  -> "warned"
    [] OTHER               -> IF perm THEN "removed" ELSE "warned"

\* whether the exception of the try block leaves do_GET after the finally
\* block: BrokenPipeError is caught, any other is not
Propagates(exc) == exc \notin {"none", "BrokenPipeError"}

\* a do_GET without the one-shot block
ShutdownThreadNever(exc) == "none"

\* the thread started at the end of do_GET
ShutdownThread(exc) == IF once /\ ~Propagates(exc) THEN "started" ELSE "none"

\* a finally block that catches FileNotFoundError only: any other error of
\* os.remove leaves do_GET
RemoveUnguarded(i) ==
  LET c == conn[i]
      r == RemoveOutcome(fs, c.abs)
  IN  /\ c.pc = "remove"
      /\ fs' = IF r = "removed" THEN [fs EXCEPT ![Resolve(c.abs)] = Absent] ELSE fs
      /\ conn' = [conn EXCEPT ![i] =
                    [c EXCEPT !.pc = "done", !.ops = @ \cup {"remove"}, !.del = r,
                              !.raised = (r = "warned" \/ Propagates(c.exc)),
                              !.sd = IF r = "warned" THEN "none"
                                     ELSE ShutdownThread(c.exc)]]
      /\ UNCHANGED <<once, perm, rewritten, loop, shutdown_request, is_shut_down,
                     interrupted, pending>>

\* a do_GET that stops the one-shot server itself and returns only when
\* serve_and_delete has ended
RemoveWaitsForStop(i) ==
  LET c == conn[i]
      r == RemoveOutcome(fs, c.abs)
  IN  /\ c.pc = "remove"
      /\ (once /\ ~Propagates(c.exc)) => loop = "stopped"
      /\ fs' = IF r = "removed" THEN [fs EXCEPT ![Resolve(c.abs)] = Absent] ELSE fs
      /\ conn' = [conn EXCEPT ![i] =
                    [c EXCEPT !.pc = "done", !.ops = @ \cup {"remove"}, !.del = r,
                              !.raised = Propagates(c.exc),
                              !.sd = ShutdownThread(c.exc)]]
      /\ UNCHANGED <<once, perm, rewritten, loop, shutdown_request, is_shut_down,
                     interrupted, pending>>

\* the finally block, and the end of do_GET
Remove(i) ==
  LET c == conn[i]
      r == RemoveOutcome(fs, c.abs)
  IN  /\ c.pc = "remove"
      /\ fs' = IF r = "removed" THEN [fs EXCEPT ![Resolve(c.abs)] = Absent] ELSE fs
      /\ conn' = [conn EXCEPT ![i] =
                    [c EXCEPT !.pc = "done", !.ops = @ \cup {"remove"}, !.del = r,
                              !.raised = Propagates(c.exc),
                              !.sd = ShutdownThread(c.exc)]]
      /\ UNCHANGED <<once, perm, rewritten, loop, shutdown_request, is_shut_down,
                     interrupted, pending>>

\* a shutdown that flips the request flag instead of setting it
ShutdownCallToggle(i) ==
  /\ conn[i].sd = "started"
  /\ loop /= "stopped"
  /\ shutdown_request' = ~shutdown_request
  /\ conn' = [conn EXCEPT ![i].sd = "called"]
  /\ UNCHANGED <<once, perm, fs, rewritten, loop, is_shut_down, interrupted, pending>>

\* _shutdown: server.shutdown() sets the request flag; the thread then waits
\* for is_shut_down, which serve_forever sets when it ends, and does nothing
\* more
ShutdownCall(i) ==
  /\ conn[i].sd = "started"
  /\ loop /= "stopped"
  /\ shutdown_request' = TRUE
  /\ conn' = [conn EXCEPT ![i].sd = "called"]
  /\ UNCHANGED <<once, perm, fs, rewritten, loop, is_shut_down, interrupted, pending>>

----------------------------------------------------------------------------
(* serve_and_delete: httpd.serve_forever() inside the with block *)

\* one turn of the loop of serve_forever with the request flag unset after
\* select and the listening socket readable: _handle_request_noblock accepts
\* the oldest connection and starts its handler thread
HandleRequest ==
  /\ loop = "select"
  /\ ~shutdown_request
  /\ \E i \in Conns :
       /\ conn[i].pc = "queued"
       /\ \A j \in Conns : j < i => conn[j].pc /= "queued"
       /\ conn' = [conn EXCEPT ![i].pc = "start"]
  /\ UNCHANGED <<once, perm, fs, rewritten, loop, shutdown_request, is_shut_down,
                 interrupted, pending>>

\* a handler thread that has been started and has not ended
InFlight(c) == c.pc \in {"start", "headers", "open", "remove"}

\* the loop sees the request flag, before or after select, and ends
LoopExit ==
  /\ loop = "select"
  /\ shutdown_request
  /\ loop' = "closing"
  /\ shutdown_request' = FALSE
  /\ is_shut_down' = TRUE
  /\ pending' = (\E i \in Conns : InFlight(conn[i]))
  /\ UNCHANGED <<once, perm, fs, rewritten, conn, interrupted>>

\* KeyboardInterrupt in serve_forever, caught in serve_and_delete
Interrupt ==
  /\ loop = "select"
  /\ loop' = "closing"
  /\ shutdown_request' = FALSE
  /\ is_shut_down' = TRUE
  /\ interrupted' = TRUE
  /\ pending' = (\E i \in Conns : InFlight(conn[i]))
  /\ UNCHANGED <<once, perm, fs, rewritten, conn>>

\* a server_close that does not wait for the handler threads
JoinedNoWait == TRUE

\* whether server_close may return: it joins the handler threads
Joined == \A i \in Conns : ~InFlight(conn[i])

\* the end of the with block: server_close, then serve_and_delete returns
ServerClose ==
  /\ loop = "closing"
  /\ Joined
  /\ loop' = "stopped"
  /\ UNCHANGED <<once, perm, fs, rewritten, conn, shutdown_request, is_shut_down,
                 interrupted, pending>>

----------------------------------------------------------------------------
(* Specifications *)

\* the steps of the handler threads
Handler ==
  \/ \E i \in Conns : Validate(i)
  \/ \E i \in Conns, w \in WriteOutcomes : SendHeaders(i, w)
  \/ \E i \in Conns, w \in WriteOutcomes : CopyFile(i, w)
  \/ \E i \in Conns : Remove(i)

\* one clip, requested by concurrent clients and rewritten by the pipeline,
\* in either mode, until the server has stopped
Next ==
  \/ \E i \in Conns, path \in ClipRequests : Connect(i, path)
  \/ PipelineWrite
  \/ Handler
  \/ \E i \in Conns : ShutdownCall(i)
  \/ HandleRequest
  \/ LoopExit
  \/ Interrupt
  \/ ServerClose

Spec == Init /\ [][Next]_vars

\* every request path, in continuous mode
InitPaths == InitOf({FALSE}, {TRUE})

NextPaths ==
  \/ \E i \in Conns, path \in Requests : Connect(i, path)
  \/ Handler
  \/ HandleRequest

SpecPaths == InitPaths /\ [][NextPaths]_vars

\* one-shot mode with no operator: the clip and every kind of rejected
\* request, until the server has stopped by itself
InitOnce == InitOf({TRUE}, BOOLEAN)

NextOnce ==
  \/ \E i \in Conns, path \in OnceRequests : Connect(i, path)
  \/ Handler
  \/ \E i \in Conns : ShutdownCall(i)
  \/ HandleRequest
  \/ LoopExit
  \/ ServerClose

SpecOnce == InitOnce /\ [][NextOnce]_vars

\* the requests of the runs that are followed to their end
LiveRequests == { ReqA, ReqRoute }

\* every thread that can take a step eventually takes one: the handler
\* threads (every transfer ends, whole or failed), the shutdown threads and
\* the thread of serve_and_delete
Fairness ==
  /\ \A i \in Conns :
       /\ WF_vars(Validate(i))
       /\ WF_vars(\E w \in WriteOutcomes : SendHeaders(i, w))
       /\ WF_vars(\E w \in WriteOutcomes : CopyFile(i, w))
       /\ WF_vars(Remove(i))
       /\ WF_vars(ShutdownCall(i))
  /\ WF_vars(HandleRequest)
  /\ WF_vars(LoopExit)
  /\ WF_vars(ServerClose)

NextLive ==
  \/ \E i \in Conns, path \in LiveRequests : Connect(i, path)
  \/ Handler
  \/ \E i \in Conns : ShutdownCall(i)
  \/ HandleRequest
  \/ LoopExit
  \/ Interrupt
  \/ ServerClose

\* either mode, under fair scheduling, until the server has stopped
SpecLive == Init /\ [][NextLive]_vars /\ Fairness

----------------------------------------------------------------------------
(* Properties *)

\* the request path starts with the download prefix
UnderPrefix(path) == StartsWith(path, SERVE_PREFIX)

\* the file a handler's abs_path names, symbolic links followed
Target(c) == Resolve(c.abs)

\* the canonical form of an absolute, normalized path: symbolic links resolved
Realpath(p) == Resolve(p)

\* the canonical path each request path names
Canonical == [path \in Requests |-> Realpath(AbsOf(path))]

\* the lowercase extension of the path each request path names
Extension == [path \in Requests |-> ExtOf(AbsOf(path))]

\* p is Root or a descendant of Root
Within(p) == p = PROJECT_ROOT \/ StartsWith(p, PROJECT_ROOT \o <<"/">>)

\* do_GET has been entered for connection i and is past its checks
Checked(i) == conn[i].pc \notin {"idle", "queued", "start"}

\* the handler answered 200 and streamed bytes of the file
Served(c) == c.status = 200 /\ c.flushed /\ c.fsize /= Absent

\* C1: every handler that reached the delivery (send_response(200)) and has
\* left do_GET, normally or by an exception, has called os.remove on its
\* abs_path.
C1_DeleteAttemptedOnEveryExit ==
  \A i \in Conns :
    (conn[i].pc = "done" /\ conn[i].status = 200)
      => ("remove" \in conn[i].ops /\ conn[i].del /= "none")

\* a client closed its connection during one delivery, another delivery
\* ended with an error that left do_GET, and both removes were attempted
C1_Witness ==
  \E i, j \in Conns :
    /\ conn[i].pc = "done" /\ conn[i].exc = "BrokenPipeError"
    /\ conn[j].pc = "done" /\ conn[j].exc = "OSError" /\ conn[j].raised
    /\ "remove" \in conn[i].ops /\ "remove" \in conn[j].ops

\* C2: a request under the prefix whose canonical path is neither Root nor a
\* descendant of Root is answered 403, and no file is opened or removed for
\* it.
C2_OutsideRootForbidden ==
  \A i \in Conns :
    (Checked(i) /\ UnderPrefix(conn[i].path)
       /\ ~Within(Canonical[conn[i].path]))
      => /\ conn[i].status = 403
         /\ conn[i].ops \cap {"getsize", "open", "remove"} = {}

\* connection i asks for a regular file of Root with an allow-listed
\* extension, and no other accepted connection asks for that file
AloneOnClip(i) ==
  /\ UnderPrefix(conn[i].path)
  /\ Canonical[conn[i].path] \in FileNames
  /\ Within(Canonical[conn[i].path])
  /\ Extension[conn[i].path] \in ALLOWED_EXTS
  /\ \A j \in Conns \ {i} :
       (conn[j].pc /= "idle"
          /\ UnderPrefix(conn[j].path)
          /\ Canonical[conn[j].path] = Canonical[conn[i].path])
         => conn[j].pc = "queued"

\* C3: a GET for a servable file that no other request and no pipeline run
\* touches, and whose remove does not fail, is answered 200 with
\* Content-Length equal to the size of the file, and the file is gone once
\* the handler has returned.
C3_ServedThenGone ==
  \A i \in Conns :
    (conn[i].pc = "done" /\ AloneOnClip(i) /\ ~rewritten /\ conn[i].del /= "warned")
      => /\ conn[i].status = 200
         /\ conn[i].clen = InitSize[Canonical[conn[i].path]]
         /\ fs[Canonical[conn[i].path]] = Absent

\* a whole delivery of the clip, alone on it, has ended with the file removed
C3_Witness ==
  \E i \in Conns :
    /\ conn[i].pc = "done" /\ AloneOnClip(i) /\ ~rewritten
    /\ conn[i].del = "removed" /\ conn[i].exc = "none"
    /\ conn[i].sent = conn[i].clen /\ conn[i].flushed

\* C4 as stated: no file is served (answered 200, bytes streamed) more than
\* once, whatever the interleaving of the requests.
C4_NeverServedTwice ==
  ~rewritten =>
    \A f \in FileNames :
      Cardinality({i \in Conns : Served(conn[i]) /\ Target(conn[i]) = f}) <= 1

\* C4, amended: a file that has begun being read for a response is gone when
\* that handler has returned, unless its remove failed or the pipeline wrote
\* the file again; and two handlers are both served the same file only if the
\* second connection was made before the first handler returned, or the first
\* handler's remove failed, or the pipeline wrote the file again.
C4_ServedTwiceOnlyWhenOverlapping ==
  ~rewritten =>
    /\ \A i \in Conns :
         (conn[i].pc = "done" /\ conn[i].fsize /= Absent /\ conn[i].del /= "warned")
           => fs[Target(conn[i])] = Absent
    /\ \A i, j \in Conns :
         (i /= j /\ Served(conn[i]) /\ Served(conn[j])
            /\ Target(conn[i]) = Target(conn[j])
            /\ conn[i].pc = "done" /\ conn[i].del /= "warned")
           => i \notin conn[j].seen

\* two handlers in flight at the same time were both served the clip, and the
\* remove failed for neither
C4_Witness ==
  \E i, j \in Conns :
    /\ i /= j /\ ~rewritten /\ perm
    /\ Served(conn[i]) /\ Served(conn[j])
    /\ Target(conn[i]) = Target(conn[j])
    /\ conn[i].pc = "done" /\ conn[j].pc = "done"

\* C5: when a GET has been answered 200 and its handler has removed the file
\* and returned, a GET for the same path on a connection made after that is
\* answered 404, unless the pipeline wrote the file again.
C5_SecondGetNotFound ==
  \A i, j \in Conns :
    (i \in conn[j].seen /\ conn[i].del = "removed"
       /\ conn[j].path = conn[i].path /\ conn[j].pc = "done" /\ ~rewritten)
      => conn[j].status = 404

\* a second GET for the removed clip has been answered 404
C5_Witness ==
  \E i, j \in Conns :
    /\ i \in conn[j].seen /\ conn[i].del = "removed" /\ ~rewritten
    /\ conn[j].path = conn[i].path /\ conn[j].pc = "done"
    /\ conn[j].status = 404 /\ conn[j].ops = {"exists"}

\* C6: a GET under the prefix for a file of Root whose lowercase extension is
\* not allow-listed is answered 415, no remove is attempted, and the file is
\* on disk as it was.
C6_UnsupportedTypeUntouched ==
  \A i \in Conns :
    (conn[i].pc = "done" /\ UnderPrefix(conn[i].path)
       /\ Canonical[conn[i].path] \in FileNames
       /\ Within(Canonical[conn[i].path])
       /\ Extension[conn[i].path] \notin ALLOWED_EXTS)
      => /\ conn[i].status = 415
         /\ conn[i].ops = {"exists"}
         /\ fs[Canonical[conn[i].path]] = InitSize[Canonical[conn[i].path]]

\* /dl/b.txt has been answered 415 and b.txt is still there
C6_Witness ==
  \E i \in Conns :
    /\ conn[i].pc = "done" /\ conn[i].path = ReqB
    /\ conn[i].status = 415 /\ fs[FileB] = InitSize[FileB]

\* C7: a request whose path does not start with the prefix is answered 404
\* with no operation on the file system and no shutdown thread started.
C7_UnknownRouteNoAccess ==
  \A i \in Conns :
    (Checked(i) /\ ~UnderPrefix(conn[i].path))
      => /\ conn[i].pc = "done"
         /\ conn[i].status = 404
         /\ conn[i].ops = {}
         /\ conn[i].del = "none"
         /\ conn[i].sd = "none"

\* in one-shot mode /x/a.mp4 has been answered 404 and the clip is still there
C7_Witness ==
  \E i \in Conns :
    /\ once /\ conn[i].pc = "done" /\ conn[i].path = ReqRoute
    /\ conn[i].status = 404 /\ fs[FileA] = InitSize[FileA]
    /\ loop = "select" /\ ~shutdown_request

\* C8: when os.remove fails with an error other than FileNotFoundError after
\* a transfer that was not cut by the client or the connection, the response
\* stands: status 200, headers out, as many bytes as Content-Length says;
\* and no exception leaves do_GET.
C8_DeleteFailureKeepsResponse ==
  \A i \in Conns :
    (conn[i].pc = "done" /\ conn[i].del = "warned" /\ conn[i].exc = "none")
      => /\ conn[i].status = 200
         /\ conn[i].flushed
         /\ conn[i].sent = conn[i].clen
         /\ ~conn[i].raised

\* a whole delivery whose remove failed
C8_Witness ==
  \E i \in Conns :
    /\ conn[i].pc = "done" /\ conn[i].del = "warned" /\ conn[i].exc = "none"
    /\ conn[i].status = 200 /\ conn[i].sent = conn[i].fsize /\ conn[i].fsize > 0
    /\ fs[Target(conn[i])] /= Absent

\* C9 as stated: in one-shot mode no connection made after a handler has
\* returned from a whole delivery is ever accepted.
C9_NoRequestAfterFirstDelivery ==
  once => \A j \in Conns : Late(j) => conn[j].pc = "queued"

\* C10: in one-shot mode, when serve_and_delete has returned, every handler
\* thread that was started has ended, and those that reached the delivery
\* have gone through the remove.
C10_InFlightHandlersFinish ==
  (once /\ loop = "stopped")
    => \A i \in Conns :
         /\ ~InFlight(conn[i])
         /\ (conn[i].status = 200 => conn[i].del /= "none")

\* a one-shot server has stopped by itself, and a handler was still running
\* when serve_forever ended
C10_Witness ==
  /\ once /\ ~interrupted /\ loop = "stopped" /\ pending
  /\ \A i \in Conns : conn[i].pc = "done"

\* the handler of connection i sent an error response and returned
Rejected(c) == c.pc = "done" /\ c.status \in {403, 404, 415}

\* C11: in one-shot mode a rejected request starts no shutdown thread, and
\* as long as every request handled so far was rejected the server is
\* running: the serve loop is in serve_forever with the request flag unset.
C11_RejectionsNeverShutDown ==
  once =>
    /\ \A i \in Conns : Rejected(conn[i]) => conn[i].sd = "none"
    /\ (\A i \in Conns : conn[i].pc \in {"idle", "queued", "start"} \/ Rejected(conn[i]))
         => (loop = "select" /\ ~shutdown_request /\ ~is_shut_down)

\* a one-shot server has answered 403 and 415 and is still serving
C11_Witness ==
  /\ once /\ loop = "select" /\ ~shutdown_request
  /\ \E i, j \in Conns :
       /\ Rejected(conn[i]) /\ conn[i].status = 403
       /\ Rejected(conn[j]) /\ conn[j].status = 415

\* C12: in either mode, from an operator interrupt on no connection is
\* accepted, the server stops only when no handler is in flight, every
\* delivery that had begun having gone through its remove, and the server does
\* stop.
C12_InterruptStopsServer ==
  /\ [][interrupted' =>
          \A i \in Conns : conn'[i].pc = "start" => conn[i].pc = "start"]_vars
  /\ []((interrupted /\ loop = "stopped") =>
          \A i \in Conns :
            /\ ~InFlight(conn[i])
            /\ (conn[i].status = 200 => conn[i].del /= "none"))
  /\ (interrupted ~> (loop = "stopped"))

\* a continuous server was interrupted during a delivery, the delivery went
\* on to its end, and the server has stopped
C12_Witness ==
  /\ ~once /\ interrupted /\ pending /\ loop = "stopped"
  /\ \E i \in Conns : Delivered(conn[i]) /\ conn[i].del = "removed"

\* the status of the first check that fails for a request in file system f,
\* in the order prefix, containment, existence, extension; 200 when none fails
FirstFailing(f, path) ==
  IF ~UnderPrefix(path) THEN 404
  ELSE IF ~Within(Canonical[path]) THEN 403
  ELSE IF Kind(f, Canonical[path]) = "none" THEN 404
  ELSE IF Extension[path] \notin ALLOWED_EXTS THEN 415
  ELSE 200

\* C13: when a handler leaves the checks, it has answered the status of the
\* first failing check, in the order prefix (404), containment (403),
\* existence (404), extension (415), and it goes on to the delivery (200)
\* only when all four pass.
C13_StatusOfFirstFailingCheck ==
  [][\A i \in Conns :
       (conn[i].pc = "start" /\ conn'[i].pc /= "start") =>
         IF FirstFailing(fs, conn[i].path) = 200
         THEN conn'[i].pc = "headers"
         ELSE /\ conn'[i].pc = "done"
              /\ conn'[i].status = FirstFailing(fs, conn[i].path)]_vars

\* what connection i asks for was no regular file when its handler ran: a
\* directory or a name that was never a file, or a file that a handler had
\* removed before the connection was made
NotRegularFile(i) ==
  \/ Canonical[conn[i].path] \notin FileNames
  \/ /\ ~rewritten
     /\ \E k \in conn[i].seen :
          conn[k].del = "removed" /\ Target(conn[k]) = Canonical[conn[i].path]

\* C14: a request under the prefix whose path inside Root is no existing
\* regular file (missing, a directory, Root itself) is answered 404: never
\* 200 or 415, and no remove is attempted on the path.
C14_NonFileRejected ==
  \A i \in Conns :
    (Checked(i) /\ UnderPrefix(conn[i].path)
       /\ Within(Canonical[conn[i].path]) /\ NotRegularFile(i))
      => /\ conn[i].status \notin {200, 415}
         /\ "remove" \notin conn[i].ops
         /\ (conn[i].pc = "done" => conn[i].status = 404)

\* connection i asked for a servable file of Root and its handler went from
\* the checks on to the delivery
InDelivery(i) ==
  /\ UnderPrefix(conn[i].path)
  /\ Canonical[conn[i].path] \in FileNames
  /\ Within(Canonical[conn[i].path])
  /\ conn[i].pc \in {"headers", "open", "remove", "done"}
  /\ "exists" \in conn[i].ops /\ conn[i].status \in {0, 200}

\* the handlers of connections i and j are both delivering the same file
BothInDelivery(i, j) ==
  /\ i /= j
  /\ InDelivery(i) /\ InDelivery(j)
  /\ Canonical[conn[j].path] = Canonical[conn[i].path]

\* C15: of the handlers delivering the same servable file, with the process
\* allowed to unlink it and no pipeline run writing it again, the first to
\* reach os.remove removes the file and no other does; another handler's
\* os.remove finds it absent, which is no error: no warning, and nothing
\* leaves do_GET because of it; when they have returned the file does not
\* exist.
C15_SecondDeleteIsNoOp ==
  \A i \in Conns :
    (InDelivery(i) /\ perm /\ ~rewritten) =>
      /\ conn[i].del \in {"none", "removed", "absent"}
      /\ (conn[i].del = "absent" =>
            /\ \E j \in Conns : BothInDelivery(i, j) /\ conn[j].del = "removed"
            /\ conn[i].raised = (conn[i].exc \notin {"none", "BrokenPipeError"}))
      /\ \A j \in Conns :
           BothInDelivery(i, j) => ~(conn[i].del = "removed" /\ conn[j].del = "removed")
      /\ (conn[i].del /= "none" => fs[Canonical[conn[i].path]] = Absent)

\* both handlers streamed the whole clip; one removed it, the other found it
\* absent and returned normally
C15_Witness ==
  \E i, j \in Conns :
    /\ BothInDelivery(i, j) /\ perm /\ ~rewritten
    /\ Delivered(conn[i]) /\ Delivered(conn[j])
    /\ conn[i].del = "removed" /\ conn[j].del = "absent" /\ ~conn[j].raised

\* C16: in one-shot mode a handler that has returned has started the shutdown
\* thread exactly when its delivery was of a success kind (the whole file
\* went out, removed or not): a delivery cut by the client starts none; and
\* without an operator interrupt the server leaves serve_forever only after
\* such a delivery.
C16_OnlySuccessShutsDown ==
  once =>
    /\ \A i \in Conns :
         conn[i].pc = "done" => ((conn[i].sd /= "none") = Delivered(conn[i]))
    /\ ((loop /= "select" /\ ~interrupted) => \E i \in Conns : Delivered(conn[i]))

\* the lifecycle of the server: Running while serve_forever loops with the
\* request flag unset, Stopped when serve_and_delete has returned,
\* ShuttingDown in between
Running == loop = "select" /\ ~shutdown_request
Stopped == loop = "stopped"

\* C17 as stated: of the deliveries of a one-shot server, at most one
\* performs the shutdown trigger (its thread calls server.shutdown()).
C17_ShutdownTriggeredOnce ==
  once => Cardinality({i \in Conns : conn[i].sd = "called"}) <= 1

\* C17, amended: every delivery of a one-shot server that ends without an
\* error leaving do_GET starts its own shutdown thread, and each thread calls
\* server.shutdown(); the calls are idempotent: the lifecycle never moves
\* backwards (once not Running, never Running again; once Stopped, Stopped).
C17_LifecycleNeverMovesBack ==
  [][once =>
       /\ \A i \in Conns : Delivered(conn[i])' => conn'[i].sd /= "none"
       /\ (~Running => ~Running')
       /\ (Stopped => Stopped')]_vars

\* two deliveries have succeeded, the shutdown threads of both have called
\* server.shutdown(), and the server has stopped
C17_Witness ==
  /\ once /\ Stopped
  /\ \E i, j \in Conns :
       /\ i /= j /\ Delivered(conn[i]) /\ Delivered(conn[j])
       /\ conn[i].sd = "called" /\ conn[j].sd = "called"

\* the handler thread of connection i can take its next step
HandlerCanStep(i) ==
  ENABLED (\/ Validate(i)
           \/ \E w \in WriteOutcomes : SendHeaders(i, w)
           \/ \E w \in WriteOutcomes : CopyFile(i, w)
           \/ Remove(i))

\* C18: the request flag is set only by the thread of a handler that has
\* already returned, at a step where no handler moves; a handler in flight
\* never waits, whatever the server does; so while the server is shutting
\* down either a handler can step or server_close can return: no deadlock
\* between the serve loop, the shutdown threads and the handlers.
C18_NoShutdownDeadlock ==
  /\ [][(shutdown_request' /\ ~shutdown_request) =>
          /\ \A i \in Conns : conn'[i].pc = conn[i].pc
          /\ \E i \in Conns :
               /\ conn[i].pc = "done"
               /\ conn[i].sd = "started" /\ conn'[i].sd = "called"]_vars
  /\ [](\A i \in Conns : InFlight(conn[i]) => HandlerCanStep(i))
  /\ []((loop = "select" /\ shutdown_request) => ENABLED LoopExit)
  /\ [](loop = "closing" =>
          (ENABLED ServerClose \/ \E i \in Conns : HandlerCanStep(i)))

\* the serve loop has ended on a shutdown request while another handler was
\* still in its delivery
C18_Witness ==
  /\ once /\ loop = "closing" /\ ~interrupted
  /\ \E i, j \in Conns :
       /\ conn[i].pc = "done" /\ conn[i].sd = "called"
       /\ conn[j].pc \in {"headers", "open", "remove"}

\* C19: in one-shot mode, under fair scheduling of the serve loop, the
\* shutdown threads and the handlers, once a handler has returned from a
\* whole delivery the server eventually stops (serve_and_delete returns),
\* with no operator interrupt needed.
C19_OneShotEventuallyStops ==
  (once /\ \E i \in Conns : Delivered(conn[i])) ~> Stopped

\* a one-shot server has stopped after a delivery, with no interrupt, and
\* every handler it started has ended
C19_Witness ==
  /\ once /\ ~interrupted /\ Stopped
  /\ \E i \in Conns : Delivered(conn[i]) /\ conn[i].sd = "called"
  /\ \A i \in Conns : ~InFlight(conn[i])

\* C20: every path the server has attempted (or is about to attempt) to
\* remove passed the four checks in the same request: the request was under
\* the prefix, the path starts with Root's path, it existed when the handler
\* tested it, and its lowercase extension is allow-listed; Root itself is
\* never passed to os.remove and no file with another extension is removed.
C20_OnlyValidatedPathsDeleted ==
  /\ [](\A i \in Conns :
          (conn[i].pc = "remove" \/ "remove" \in conn[i].ops) =>
            /\ UnderPrefix(conn[i].path)
            /\ "exists" \in conn[i].ops
            /\ StartsWith(conn[i].abs, PROJECT_ROOT)
            /\ conn[i].abs /= PROJECT_ROOT
            /\ lower(splitext(conn[i].abs)) \in ALLOWED_EXTS)
  /\ [][\A i \in Conns :
          (conn[i].pc = "start" /\ conn'[i].pc \notin {"start", "done"}) =>
            Kind(fs, conn'[i].abs) /= "none"]_vars
  /\ [](\A f \in FileNames :
          lower(splitext(f)) \notin ALLOWED_EXTS => fs[f] = InitSize[f])

\* a clip has been removed after its delivery, a request for b.txt has been
\* answered, and b.txt is still there
C20_Witness ==
  \E i, j \in Conns :
    /\ conn[i].del = "removed" /\ conn[i].abs = FileA /\ fs[FileA] = Absent
    /\ conn[j].pc = "done" /\ conn[j].abs = FileB /\ conn[j].del = "none"
    /\ fs[FileB] = InitSize[FileB]

\* a write to the socket of connection i failed during the body: its client
\* disconnected or the connection broke
ClientWentAway(c) == c.fsize /= Absent /\ c.exc /= "none"

\* C21: a handler that has sent the 200 header with Content-Length n, and
\* whose own client stays connected, ends its try block without an error
\* and with exactly n bytes streamed, whatever a concurrent handler's
\* os.remove does to the file.
C21_ConcurrentDeleteHarmless ==
  \A i \in Conns :
    (conn[i].status = 200 /\ conn[i].flushed
       /\ conn[i].pc \in {"remove", "done"} /\ ~ClientWentAway(conn[i]))
      => /\ conn[i].exc = "none"
         /\ conn[i].sent = conn[i].clen
         /\ ~conn[i].raised

====
